---- MODULE Spec2Model ----
(***************************************************************************)
(* Referral attribution of the Quantara waitlist: the /api/waitlist        *)
(* (Signup) and /api/verify-email (VerifyEmail) handlers over the          *)
(* user_account and referral_event tables.                                 *)
(*                                                                         *)
(* Every handler runs one SQL statement per await, with no transaction:    *)
(* an action of this module is one handler step, from one await to the     *)
(* next.  Text values are sequences of one-character strings; the empty     *)
(* sequence stands for SQL NULL / JS null, undefined and "" alike, which    *)
(* the handlers do not tell apart (`?? ""`, `|| null`, `if (!rc)`).        *)
(***************************************************************************)
EXTENDS Integers, Sequences, FiniteSets, TLC

VARIABLES
    env,        \* the deployment: NODE_ENV, TURNSTILE_SECRET_KEY, the DDL that
                \* built the store (db/schema.ts or migration 0000) and the
                \* verifyTurnstile that api/_lib/turnstile.ts exports
    accounts,   \* table user_account, in insertion order: the row's id is its index
    ledger,     \* table referral_event, in created_at order
    credential, \* per account id: the state of the latest email-verify JWT issued
    req         \* per request slot: the handler invocation in flight

vars == <<env, accounts, ledger, credential, req>>

(***************************************************************************)
(* Bounds of the model.                                                    *)
(***************************************************************************)
\* Number of distinct random suffixes Math.random() can draw.
NSuffix == 2

\* Rows the referral_event table can hold (a store without the unique index
\* on the triple grows with every retry).
MaxLedger == 4

\* Request slots (handler invocations that can be in flight at once).
Slots == {1, 2}

(***************************************************************************)
(* Text helpers.                                                           *)
(***************************************************************************)
\* String.prototype.toLowerCase, per character (the alphabet of the model).
LowerChar(c) ==
    CASE c = "A" -> "a"
      [] c = "B" -> "b"
      [] c = "C" -> "c"
      [] OTHER -> c

\* String.prototype.toUpperCase, per character.
UpperChar(c) ==
    CASE c = "a" -> "A"
      [] c = "b" -> "B"
      [] c = "c" -> "C"
      [] c = "x" -> "X"
      [] c = "y" -> "Y"
      [] OTHER -> c

Lower(s) == [k \in 1..Len(s) |-> LowerChar(s[k])]
Upper(s) == [k \in 1..Len(s) |-> UpperChar(s[k])]

\* The class [a-zA-Z0-9] of makeReferralCode's replace().
IsAlnum(c) == c \in {"a", "b", "c", "x", "y", "A", "B", "C", "X", "Y", "1", "2", "3"}

\* String.prototype.trim: leading and trailing blanks removed.
RECURSIVE TrimLeft(_)
TrimLeft(s) == IF s # <<>> /\ Head(s) = " " THEN TrimLeft(Tail(s)) ELSE s
RECURSIVE TrimRight(_)
TrimRight(s) ==
    IF s # <<>> /\ s[Len(s)] = " " THEN TrimRight(SubSeq(s, 1, Len(s) - 1)) ELSE s
Trim(s) == TrimRight(TrimLeft(s))

\* Position of the first "@" of s, or 0.
RECURSIVE IndexOfAtFrom(_, _)
IndexOfAtFrom(s, k) ==
    IF k > Len(s) THEN 0 ELSE IF s[k] = "@" THEN k ELSE IndexOfAtFrom(s, k + 1)
IndexOfAt(s) == IndexOfAtFrom(s, 1)

\* email.split("@")[0]
LocalPart(s) == IF IndexOfAt(s) = 0 THEN s ELSE SubSeq(s, 1, IndexOfAt(s) - 1)

\* s.slice(0, n)
Take(s, n) == SubSeq(s, 1, IF Len(s) < n THEN Len(s) ELSE n)

\* z.string().email(): one "@" between a non-empty local part and a non-empty
\* domain, and no blank anywhere.
IsEmail(s) ==
    /\ IndexOfAt(s) > 1
    /\ IndexOfAt(s) < Len(s)
    /\ \A k \in 1..Len(s) : s[k] # " " /\ (s[k] = "@" => k = IndexOfAt(s))

\* The normalisation without toLowerCase().
NormalizeEmailNoLower(e) == Trim(e)

\* const email = data.email.toLowerCase().trim()
NormalizeEmail(e) == Trim(Lower(e))

\* makeReferralCode(email), with the four random characters drawn as one symbol.
MakeReferralCode(email, rand) ==
    Upper(Take(SelectSeq(LocalPart(email), IsAlnum), 6)) \o <<ToString(rand)>>

\* refCodeIn = data.referral?.trim() || data.referral_auto?.trim() || null
RefCodeIn(referral, referral_auto) ==
    IF Trim(referral) # <<>> THEN Trim(referral) ELSE Trim(referral_auto)

(***************************************************************************)
(* Optional body fields and the utm JSONB object.  Profile and utm values  *)
(* are strings; three strings stand for what is no value.                  *)
(***************************************************************************)
\* A field the request body does not carry (JS undefined).
Undefined == "<undefined>"

\* SQL NULL in a text column, JSON null in a JSONB object.
SqlNull == "<null>"

\* A key a JSONB object does not have.
Missing == "<missing>"

\* data.x ?? null
Coalesce(v) == IF v = Undefined THEN SqlNull ELSE v

\* The optional profile columns the UPDATE and the INSERT write besides role.
ProfileFields == {"experience", "discord", "github", "country"}

\* The keys of utmPayload; the body carries key k as utm_<k>.
UtmKeys == {"source", "medium", "campaign", "content", "term"}

\* jsonb_strip_nulls(obj): the keys whose value is null are removed.
JsonbStripNulls(obj) ==
    [k \in UtmKeys |-> IF obj[k] = SqlNull THEN Missing ELSE obj[k]]

\* a || b on JSONB objects: every key of b, null or not, replaces a's.
JsonbConcat(a, b) ==
    [k \in UtmKeys |-> IF b[k] # Missing THEN b[k] ELSE a[k]]

\* utmPayload (lines 151-157): every key, null when the body has no value.
UtmPayload(utm) == [k \in UtmKeys |-> Coalesce(utm[k])]

\* The payload sent as it is, nulls included.
UtmJsonWithNulls(utm) == UtmPayload(utm)

\* utmJson = jsonb_strip_nulls(${JSON.stringify(utmPayload)}::jsonb)
UtmJson(utm) == JsonbStripNulls(UtmPayload(utm))

\* '{}'::jsonb, the column's default.
EmptyUtm == [k \in UtmKeys |-> Missing]

(***************************************************************************)
(* The store: tables, unique indexes and the statements the handlers run.  *)
(***************************************************************************)
Ids(accts) == 1..Len(accts)

\* A user_account row as the handlers write and read it; created_at is the
\* row's position in the table.
AccountRow(email, code, profile, utm) ==
    [email |-> email, referral_code |-> code, email_verified |-> FALSE,
     role |-> profile.role,
     experience |-> Coalesce(profile.experience),
     discord |-> Coalesce(profile.discord),
     github |-> Coalesce(profile.github),
     country |-> Coalesce(profile.country),
     utm |-> utm]

\* The update written as a replacement of the whole row.
UpdateQAsNewRow(row, profile, utm) ==
    AccountRow(row.email, row.referral_code, profile,
               JsonbStripNulls(JsonbConcat(row.utm, UtmJson(utm))))

\* UPDATE user_account SET role = ..., experience = ..., discord = ...,
\* github = ..., country = ..., utm = jsonb_strip_nulls(user_account.utm || utmJson)
UpdateQ(row, profile, utm) ==
    [row EXCEPT !.role = profile.role,
                !.experience = Coalesce(profile.experience),
                !.discord = Coalesce(profile.discord),
                !.github = Coalesce(profile.github),
                !.country = Coalesce(profile.country),
                !.utm = JsonbStripNulls(JsonbConcat(row.utm, UtmJson(utm)))]

\* A referral_event row; created_at is the row's position in the ledger.
EventRow(referrer, referee, kind) ==
    [referrer_id |-> referrer, referee_id |-> referee, kind |-> kind]

\* The two descriptions of the store the repository holds: the tables and
\* indexes db/schema.ts declares, and those migration 0000 creates.
Ddls == {"schema.ts", "0000"}

\* A store with no unique index on the email.
NoEmailUq(accts, email) == FALSE

\* A store with no unique index on referral_code.
NoReferralCodeUq(accts, id, code) == FALSE

\* The unique index on the email: would a row holding `email` violate it.
\* schema.ts: uniqueIndex("user_account_email_lower_uq").on(lower(email));
\* migration 0000: "user_account_email_uq" on (email).
EmailLowerUqViolated(accts, email) ==
    IF env.ddl = "schema.ts"
    THEN \E k \in Ids(accts) : Lower(accts[k].email) = Lower(email)
    ELSE \E k \in Ids(accts) : accts[k].email = email

\* uniqueIndex("user_account_referral_code_uq").on(referral_code): would row
\* `id` (0: a new row) holding `code` violate it.  NULLs never collide.
ReferralCodeUqViolated(accts, id, code) ==
    /\ code # <<>>
    /\ \E k \in Ids(accts) : k # id /\ accts[k].referral_code = code

\* uniqueIndex("ref_event_referrer_referee_kind_uq"): would the row violate it.
\* schema.ts declares the index; migration 0000 creates referral_event with
\* its primary key only.
UniqueTripletViolated(events, row) ==
    /\ env.ddl = "schema.ts"
    /\ \E k \in 1..Len(events) : events[k] = row

\* The message of the error the driver throws for a unique violation, as the
\* set of its words (maximal runs of [A-Za-z0-9_]):
\*   duplicate key value violates unique constraint "<index name>"
UniqueViolationMessage(index) ==
    {"duplicate", "key", "value", "violates", "unique", "constraint", index}

NoError == {}

\* /\bword\b/i.test(msg): `word` is made of word characters only, so it matches
\* exactly when it is one of the message's maximal runs of word characters.
RegexWordTest(word, msg) == word \in msg

\* if (/\bunique\b/i.test(msg) && /\breferral_code\b/i.test(msg)) continue;
IsReferralCodeCollision(msg) ==
    RegexWordTest("unique", msg) /\ RegexWordTest("referral_code", msg)

\* SELECT id ... WHERE lower(email) = ${email} LIMIT 1: the ids it can return.
ExistingQ(accts, email) ==
    {k \in Ids(accts) : Lower(accts[k].email) = email}

\* INSERT INTO user_account (...) VALUES (...): the error it raises, if any.
InsertAccountError(accts, email, code) ==
    IF EmailLowerUqViolated(accts, email)
    THEN UniqueViolationMessage(IF env.ddl = "schema.ts"
                                THEN "user_account_email_lower_uq"
                                ELSE "user_account_email_uq")
    ELSE IF ReferralCodeUqViolated(accts, 0, code)
         THEN UniqueViolationMessage("user_account_referral_code_uq")
         ELSE NoError

\* UPDATE user_account SET referral_code = ${candidate} WHERE id = ${id}
SetCodeError(accts, id, code) ==
    IF ReferralCodeUqViolated(accts, id, code)
    THEN UniqueViolationMessage("user_account_referral_code_uq")
    ELSE NoError

\* The insert with no unique index to conflict with.
InsertEventAlways(events, row) == Append(events, row)

\* An insert that overwrites the newest row of the table.
InsertEventOverNewest(events, row) ==
    IF events = <<>> THEN <<row>>
    ELSE IF UniqueTripletViolated(events, row) THEN events
    ELSE [events EXCEPT ![Len(events)] = row]

\* INSERT INTO referral_event ... ON CONFLICT DO NOTHING, one row.
InsertEvent(events, row) ==
    IF UniqueTripletViolated(events, row) THEN events ELSE Append(events, row)

\* The SELECT without `AND u1.id <> u2.id`.
LogReferralRowsWithSelf(accts, email, refCodeIn) ==
    {p \in Ids(accts) \X Ids(accts) :
        /\ accts[p[1]].referral_code = refCodeIn
        /\ Lower(accts[p[2]].email) = email}

\* The rows logReferral's SELECT yields: u1 holds the code, u2 the email,
\* u1.id <> u2.id.
LogReferralRows(accts, email, refCodeIn) ==
    {p \in Ids(accts) \X Ids(accts) :
        /\ accts[p[1]].referral_code = refCodeIn
        /\ Lower(accts[p[2]].email) = email
        /\ p[1] # p[2]}

\* INSERT INTO referral_event SELECT u1.id, u2.id, 'SIGNUP' ... ON CONFLICT DO NOTHING
RECURSIVE InsertSignups(_, _)
InsertSignups(events, pairs) ==
    IF pairs = {} THEN events
    ELSE LET p == CHOOSE q \in pairs : \A o \in pairs : q[1] < o[1] \/ (q[1] = o[1] /\ q[2] <= o[2])
         IN  InsertSignups(InsertEvent(events, EventRow(p[1], p[2], "SIGNUP")), pairs \ {p})

LogReferral(accts, events, email, refCodeIn) ==
    InsertSignups(events, LogReferralRows(accts, email, refCodeIn))

\* The query with ORDER BY created_at ASC.
RefQOldest(events, id) ==
    LET hits == {k \in 1..Len(events) :
                    events[k].referee_id = id /\ events[k].kind = "SIGNUP"}
    IN  IF hits = {} THEN 0
        ELSE events[CHOOSE k \in hits : \A o \in hits : k <= o].referrer_id

\* The query without `referee_id = ${id}`.
RefQAnyReferee(events, id) ==
    LET hits == {k \in 1..Len(events) : events[k].kind = "SIGNUP"}
    IN  IF hits = {} THEN 0
        ELSE events[CHOOSE k \in hits : \A o \in hits : o <= k].referrer_id

\* SELECT referrer_id FROM referral_event WHERE referee_id = ${id} AND kind = 'SIGNUP'
\* ORDER BY created_at DESC LIMIT 1: the referrer, or 0 when there is no row.
RefQ(events, id) ==
    LET hits == {k \in 1..Len(events) :
                    events[k].referee_id = id /\ events[k].kind = "SIGNUP"}
    IN  IF hits = {} THEN 0
        ELSE events[CHOOSE k \in hits : \A o \in hits : o <= k].referrer_id

\* INSERT INTO referral_event VALUES (referrer, id, 'VERIFIED') ON CONFLICT DO NOTHING
AwardVerified(events, referrer, id) ==
    InsertEvent(events, EventRow(referrer, id, "VERIFIED"))

(***************************************************************************)
(* Requests.                                                               *)
(***************************************************************************)
\* The emails a signup request can carry: two spellings of one address, a
\* second address, and a string that is no email.
EmailInputs ==
    { <<"a", "@", "x">>, <<"A", "@", "x">>, <<"b", "@", "x">>, <<"a", "x">> }

\* Every code makeReferralCode can mint for an email of the model.
AllCodes ==
    {MakeReferralCode(NormalizeEmail(e), n) : e \in {x \in EmailInputs : IsEmail(x)},
                                              n \in 1..NSuffix}

\* The `referral` field: absent, a code, or a code that no account holds.
ReferralInputs == {<<>>, <<"Z", "Z">>} \cup AllCodes

\* The `referral_auto` field (captured from the URL): absent or a code.
ReferralAutoInputs == {<<>>, <<" ">>} \cup {c \in AllCodes : c[Len(c)] = "1"}

\* The Turnstile token: absent, the bypass value, a widget token, a short string.
TokenInputs == {"", "TEST_BYPASS", "cf-token", "abc"}

\* A body with the required role and no optional profile field.
RoleOnly ==
    [role |-> "Builder", experience |-> Undefined, discord |-> Undefined,
     github |-> Undefined, country |-> Undefined]

\* A body with no utm_* field.
NoUtm == [k \in UtmKeys |-> Undefined]

\* The bodies a signup request can carry.
SignupRequests ==
    [email : EmailInputs, referral : ReferralInputs,
     referral_auto : ReferralAutoInputs, token : TokenInputs,
     profile : {RoleOnly}, utm : {NoUtm}]

\* A slot with no request in it, and the shape of every request record.
Idle ==
    [kind |-> "idle", pc |-> "idle", data_email |-> <<>>, email |-> <<>>,
     refCodeIn |-> <<>>, profile |-> RoleOnly, utm |-> NoUtm,
     token |-> "", human |-> FALSE, id |-> 0, i |-> 0, rc |-> <<>>, ref |-> 0,
     wantsJson |-> FALSE, status |-> 0, error |-> "", code |-> <<>>,
     awarded |-> FALSE, confirmed |-> FALSE, cred0 |-> "none", accounts0 |-> <<>>, ledger0 |-> <<>>,
     window |-> "", wSignup |-> 0, wVerified |-> 0, limit |-> 0, min |-> 0,
     start |-> 0, data |-> <<>>]

\* JoinSchema.safeParse: an email, a role of one character or more and, when
\* given, a token of 5 characters or more.
JoinSchemaOk(email, role, token) ==
    /\ IsEmail(email)
    /\ role \notin {Undefined, ""}
    /\ token = "" \/ Len(token) >= 5

\* api/_lib/turnstile.ts declares verifyTurnstile twice, with the options
\* signature and with the legacy one; a build exports one of the two.
Helpers == {"opts", "legacy"}

\* The call reaches siteverify (line 78): neither the bypass nor the missing
\* secret has returned before it.
AsksProvider(token) ==
    ~(~env.production /\ token = "TEST_BYPASS") /\ env.turnstileSecret

\* verifyTurnstile(token, ip); providerOk is siteverify's answer (r.ok and success).
VerifyTurnstile(token, providerOk) ==
    IF ~env.production /\ token = "TEST_BYPASS" THEN TRUE
    ELSE IF ~env.turnstileSecret THEN FALSE
    ELSE providerOk

\* The handler without the gate.
HumanGateOpen(human) == "lookup"

\* if (!human) return res.status(401): where the handler goes after the check.
HumanGate(human) == IF human THEN "lookup" ELSE "done"

\* A response: the request ends with `status`.
Respond(r, status, error) ==
    [r EXCEPT !.pc = "done", !.status = status, !.error = error]

\* A handler that rejects a referral code no account holds.
SignupOkKnownCodeOnly(r, id, code) ==
    IF r.refCodeIn # <<>>
       /\ \A k \in Ids(accounts) : accounts[k].referral_code # r.refCodeIn
    THEN [r EXCEPT !.pc = "done", !.status = 400, !.error = "Unknown referral code"]
    ELSE [r EXCEPT !.pc = "done", !.status = 200, !.id = id, !.code = code]

\* res.status(200).json({ok: true, code: user.referral_code, ..., verifyToken})
SignupOk(r, id, code) ==
    [r EXCEPT !.pc = "done", !.status = 200, !.id = id, !.code = code]

\* jwt.sign({sub: user.id, ...}): the account's latest credential is a fresh one.
JwtSign(creds, id) == [creds EXCEPT ![id] = "fresh"]

\* The store as db/schema.ts declares it, empty or holding one legacy row.
Init ==
    /\ env \in [production : BOOLEAN, turnstileSecret : BOOLEAN, ddl : {"schema.ts"},
                helper : {"opts"}]
    /\ \/ accounts = <<>> /\ credential = <<>>
       \/ \* a row written before referral codes were generated
          /\ accounts = <<AccountRow(<<"b", "@", "x">>, <<>>, RoleOnly, EmptyUtm)>>
          /\ credential = <<"none">>
    /\ ledger = <<>>
    /\ req = [s \in Slots |-> Idle]

(***************************************************************************)
(* POST /api/waitlist                                                      *)
(***************************************************************************)
\* Lines 108-140: parse and validate the body.
SignupBegin(s, bodies) ==
    /\ req[s].kind = "idle"
    /\ \E data \in bodies :
         LET r == [Idle EXCEPT !.kind = "signup", !.accounts0 = accounts,
                               !.ledger0 = ledger]
         IN  req' = [req EXCEPT ![s] =
                IF ~JoinSchemaOk(data.email, data.profile.role, data.token)
                THEN Respond(r, 400, "Invalid payload")
                ELSE [r EXCEPT !.pc = "turnstile",
                               !.data_email = data.email,
                               !.email = NormalizeEmail(data.email),
                               !.refCodeIn = RefCodeIn(data.referral, data.referral_auto),
                               !.profile = data.profile,
                               !.utm = data.utm,
                               !.token = data.token]]
    /\ UNCHANGED <<env, accounts, ledger, credential>>

\* Lines 142-143: the human check and its gate.
SignupTurnstile(s) ==
    /\ req[s].kind = "signup" /\ req[s].pc = "turnstile"
    /\ \E providerOk \in BOOLEAN :
         LET human == VerifyTurnstile(req[s].token, providerOk)
             r == [req[s] EXCEPT !.human = human, !.token = "",
                                 !.confirmed = AsksProvider(req[s].token) /\ providerOk]
         IN  req' = [req EXCEPT ![s] =
                IF HumanGate(human) = "done"
                THEN Respond(r, 401, "Human verification failed")
                ELSE [r EXCEPT !.pc = HumanGate(human)]]
    /\ UNCHANGED <<env, accounts, ledger, credential>>

\* Line 78: the request to siteverify is sent with no AbortSignal and no
\* timer, so while the provider does not answer the await of line 142 stays
\* pending and no line of the handler runs.
SignupTurnstileHangs(s) ==
    /\ req[s].kind = "signup" /\ req[s].pc = "turnstile"
    /\ AsksProvider(req[s].token)
    /\ req' = [req EXCEPT ![s].pc = "siteverify"]
    /\ UNCHANGED <<env, accounts, ledger, credential>>

\* Lines 160-173: look the account up by lower(email).  The provider's answer
\* was a local of verifyTurnstile: nothing of it is left but `human`.
SignupLookup(s) ==
    /\ req[s].kind = "signup" /\ req[s].pc = "lookup"
    /\ LET hits == ExistingQ(accounts, req[s].email)
       IN  IF hits = {}
           THEN req' = [req EXCEPT ![s].pc = "insert", ![s].i = 0,
                                   ![s].confirmed = FALSE]
           ELSE \E id \in hits : req' = [req EXCEPT ![s].pc = "update", ![s].id = id,
                                                      ![s].confirmed = FALSE]
    /\ UNCHANGED <<env, accounts, ledger, credential>>

\* A handler that mints on every update.
NeedsCodeAlways(rc) == TRUE

\* if (!rc): the row has no referral code yet (line 193).
NeedsCode(rc) == rc = <<>>

\* After the upsert (lines 242-269): with a referral code the handler awaits
\* logReferral, without one it signs the JWT and answers at once.
AfterUpsert(s, id, code, creds) ==
    IF req[s].refCodeIn # <<>>
    THEN /\ req' = [req EXCEPT ![s].pc = "log", ![s].id = id, ![s].code = code]
         /\ credential' = creds
    ELSE /\ req' = [req EXCEPT ![s] = SignupOk(req[s], id, code)]
         /\ credential' = JwtSign(creds, id)

\* Lines 174-193: UPDATE ... RETURNING id, email, referral_code.
SignupUpdate(s) ==
    /\ req[s].kind = "signup" /\ req[s].pc = "update"
    /\ accounts' = [accounts EXCEPT ![req[s].id] =
                        UpdateQ(accounts[req[s].id], req[s].profile, req[s].utm)]
    /\ LET rc == accounts[req[s].id].referral_code
       IN  IF NeedsCode(rc)
           THEN /\ req' = [req EXCEPT ![s].pc = "setcode", ![s].i = 0]
                /\ UNCHANGED credential
           ELSE AfterUpsert(s, req[s].id, rc, credential)
    /\ UNCHANGED <<env, ledger>>

\* Lines 194-213: one turn of the loop that mints a code for an existing row.
SignupSetCode(s) ==
    /\ req[s].kind = "signup" /\ req[s].pc = "setcode"
    /\ \E rand \in 1..NSuffix, rand2 \in 1..NSuffix :
         LET candidate == MakeReferralCode(req[s].email, rand)
             err == SetCodeError(accounts, req[s].id, candidate)
         IN  IF err = NoError
             THEN /\ accounts' = [accounts EXCEPT ![req[s].id].referral_code = candidate]
                  /\ AfterUpsert(s, req[s].id, candidate, credential)
             ELSE IF IsReferralCodeCollision(err)
             THEN /\ UNCHANGED accounts
                  /\ IF req[s].i + 1 < 3
                     THEN /\ req' = [req EXCEPT ![s].i = req[s].i + 1]
                          /\ UNCHANGED credential
                     ELSE \* rc is still empty: rc || makeReferralCode(email)
                          AfterUpsert(s, req[s].id,
                                      MakeReferralCode(req[s].email, rand2), credential)
             ELSE /\ UNCHANGED <<accounts, credential>>
                  /\ req' = [req EXCEPT ![s] = Respond(req[s], 500, "Internal error")]
    /\ UNCHANGED <<env, ledger>>

\* Lines 215-240: one turn of the loop that inserts the new row.
SignupInsert(s) ==
    /\ req[s].kind = "signup" /\ req[s].pc = "insert"
    /\ \E rand \in 1..NSuffix :
         LET candidateCode == MakeReferralCode(req[s].email, rand)
             err == InsertAccountError(accounts, req[s].email, candidateCode)
         IN  IF err = NoError
             THEN /\ accounts' = Append(accounts,
                                         AccountRow(req[s].email, candidateCode,
                                                    req[s].profile, UtmJson(req[s].utm)))
                  /\ AfterUpsert(s, Len(accounts) + 1, candidateCode,
                                 Append(credential, "none"))
             ELSE IF IsReferralCodeCollision(err) /\ req[s].i + 1 < 3
             THEN /\ req' = [req EXCEPT ![s].i = req[s].i + 1]
                  /\ UNCHANGED <<accounts, credential>>
             ELSE \* rethrown, or "Failed to insert user" after the third turn
                  /\ req' = [req EXCEPT ![s] = Respond(req[s], 500, "Internal error")]
                  /\ UNCHANGED <<accounts, credential>>
    /\ UNCHANGED <<env, ledger>>

\* Lines 243-269: logReferral, then the JWT and the response.
SignupLog(s) ==
    /\ req[s].kind = "signup" /\ req[s].pc = "log"
    /\ ledger' = LogReferral(accounts, ledger, req[s].email, req[s].refCodeIn)
    /\ Len(ledger') <= MaxLedger
    /\ req' = [req EXCEPT ![s] = SignupOk(req[s], req[s].id, req[s].code)]
    /\ credential' = JwtSign(credential, req[s].id)
    /\ UNCHANGED <<env, accounts>>

\* The statement of lines 244-253 throws (the store cannot be reached, the
\* query times out): the catch of lines 270-273 answers 500.
SignupLogFails(s) ==
    /\ req[s].kind = "signup" /\ req[s].pc = "log"
    /\ req' = [req EXCEPT ![s] = Respond(req[s], 500, "Internal error")]
    /\ UNCHANGED <<env, accounts, ledger, credential>>

(***************************************************************************)
(* GET/POST /api/verify-email                                              *)
(***************************************************************************)
\* What a caller can present as the token: nothing, a string that is no JWT of
\* this server, or the latest JWT issued for an account, within its two days
\* or past them.
JwtInputs == {"missing", "forged", "expired", "valid"}

\* jwt.verify(token, JWT_SECRET, {algorithms, issuer, audience}): signature and
\* expiry are all it checks.
JwtVerify(jwt) == jwt = "valid"

\* Lines 60-96: read the token and verify it.
VerifyBegin(s) ==
    /\ req[s].kind = "idle"
    /\ \E jwt \in JwtInputs, sub \in Ids(accounts), wantsJson \in BOOLEAN :
         LET r == [Idle EXCEPT !.kind = "verify", !.wantsJson = wantsJson,
                               !.accounts0 = accounts, !.ledger0 = ledger]
         IN  /\ jwt \in {"expired", "valid"} => credential[sub] # "none"
             /\ IF jwt = "missing"
                THEN /\ req' = [req EXCEPT ![s] = Respond(r, 400, "Missing token")]
                     /\ UNCHANGED credential
                ELSE IF ~JwtVerify(jwt)
                THEN /\ req' = [req EXCEPT ![s] =
                                   Respond(r, 401, "Invalid or expired token")]
                     /\ UNCHANGED credential
                ELSE /\ req' = [req EXCEPT ![s] =
                                   [r EXCEPT !.pc = "fetch", !.id = sub,
                                             !.cred0 = credential[sub]]]
                     /\ credential' = [credential EXCEPT ![sub] = "used"]
    /\ UNCHANGED <<env, accounts, ledger>>

\* The response of lines 142-158: JSON with the awarded flag, or a redirect.
VerifyOk(r, ref) ==
    [r EXCEPT !.pc = "done", !.status = IF r.wantsJson THEN 200 ELSE 302,
              !.ref = ref, !.awarded = (ref # 0)]

\* A handler that answers at once when the flag is already set.
AfterFetchShortCircuit(email_verified) == IF email_verified THEN "done" ELSE "mark"

\* if (!user.email_verified) { UPDATE ... }: the update is skipped when the
\* flag is set, and the award logic of lines 120-140 follows either way.
AfterFetch(email_verified) == IF email_verified THEN "refq" ELSE "mark"

\* Lines 98-115: fetch the user row.
VerifyFetch(s) ==
    /\ req[s].kind = "verify" /\ req[s].pc = "fetch"
    /\ req' = [req EXCEPT ![s] =
          IF req[s].id \notin Ids(accounts)
          THEN Respond(req[s], 404, "User not found")
          ELSE IF AfterFetch(accounts[req[s].id].email_verified) = "done"
          THEN VerifyOk(req[s], 0)
          ELSE [req[s] EXCEPT !.pc = AfterFetch(accounts[req[s].id].email_verified)]]
    /\ UNCHANGED <<env, accounts, ledger, credential>>

\* Lines 115-118: UPDATE user_account SET email_verified = true.
VerifyMark(s) ==
    /\ req[s].kind = "verify" /\ req[s].pc = "mark"
    /\ accounts' = [accounts EXCEPT ![req[s].id].email_verified = TRUE]
    /\ req' = [req EXCEPT ![s].pc = "refq"]
    /\ UNCHANGED <<env, ledger, credential>>

\* Lines 122-133: the most recent SIGNUP event of the user as referee.
VerifyRefQ(s) ==
    /\ req[s].kind = "verify" /\ req[s].pc = "refq"
    /\ LET ref == RefQ(ledger, req[s].id)
       IN  req' = [req EXCEPT ![s] =
              IF ref # 0 THEN [req[s] EXCEPT !.pc = "award", !.ref = ref]
              ELSE VerifyOk(req[s], ref)]
    /\ UNCHANGED <<env, accounts, ledger, credential>>

\* Lines 133-158: insert the VERIFIED event, then answer.
VerifyAward(s) ==
    /\ req[s].kind = "verify" /\ req[s].pc = "award"
    /\ ledger' = AwardVerified(ledger, req[s].ref, req[s].id)
    /\ Len(ledger') <= MaxLedger
    /\ req' = [req EXCEPT ![s] = VerifyOk(req[s], req[s].ref)]
    /\ UNCHANGED <<env, accounts, credential>>

\* The statement of lines 134-139 throws: the catch of lines 159-162 answers 500.
VerifyAwardFails(s) ==
    /\ req[s].kind = "verify" /\ req[s].pc = "award"
    /\ req' = [req EXCEPT ![s] = Respond(req[s], 500, "Internal error")]
    /\ UNCHANGED <<env, accounts, ledger, credential>>

(***************************************************************************)
(* GET /api/leaderboard                                                    *)
(***************************************************************************)
\* A query parameter: absent, a text that is no number, or an integer.
NoParam == [kind |-> "absent", n |-> 0]
NotANumber == [kind |-> "nan", n |-> 0]
Num(n) == [kind |-> "num", n |-> n]

Max2(a, b) == IF a >= b THEN a ELSE b
Min2(a, b) == IF a <= b THEN a ELSE b

\* Number(q ?? d) || d: d when q is absent, no number, or 0.
NumberOr(q, d) == IF q.kind = "num" /\ q.n # 0 THEN q.n ELSE d

\* const limit = Math.max(1, Math.min(100, Number(req.query.limit ?? 20) || 20))
LimitOf(q) == Max2(1, Min2(100, NumberOr(q, 20)))

\* const min = Math.max(0, Number(req.query.min ?? 0) || 0)
MinOf(q) == Max2(0, NumberOr(q, 0))

\* String(req.query.w ?? '1,2').split(',').map(Number): w is absent or the
\* list of its comma-separated parts.
WeightParts(w) == IF w.absent THEN <<Num(1), Num(2)>> ELSE w.parts

\* Number.isFinite(weights[k]) ? weights[k] : d
WeightAt(w, k, d) ==
    IF Len(WeightParts(w)) >= k /\ WeightParts(w)[k].kind = "num"
    THEN WeightParts(w)[k].n ELSE d

\* (req.query.window)?.toLowerCase() ?? 'week', for a value in lower case.
WindowQ(q) == IF q = Undefined THEN "week" ELSE q

\* windowSql as the number of ledger rows created before it: none for
\* to_timestamp(0); for date_trunc('month' | 'week', now()) the `before` rows
\* that were written before the month or the week began.
WindowStart(windowQ, before) == IF windowQ = "all" THEN 0 ELSE before

\* COUNT(*) FILTER (WHERE r.kind = kind AND r.created_at >= windowSql) over
\* the rows joined to account id.
CountKind(events, id, kind, start) ==
    Cardinality({k \in 1..Len(events) :
                    /\ k > start
                    /\ events[k].referrer_id = id
                    /\ events[k].kind = kind})

\* The aggregates of one account: one group of GROUP BY u.id.
Stats(accts, events, id, start, wS, wV) ==
    LET sg == CountKind(events, id, "SIGNUP", start)
        vf == CountKind(events, id, "VERIFIED", start)
    IN  [id |-> id, signups |-> sg, verified |-> vf, points |-> sg * wS + vf * wV]

\* ORDER BY without `verified DESC, signups DESC`.
OrderedBeforeByPointsOnly(a, b) ==
    \/ a.points > b.points
    \/ a.points = b.points /\ a.id < b.id

\* ORDER BY points DESC NULLS LAST, verified DESC, signups DESC, u.created_at ASC
OrderedBefore(a, b) ==
    \/ a.points > b.points
    \/ a.points = b.points /\ a.verified > b.verified
    \/ a.points = b.points /\ a.verified = b.verified /\ a.signups > b.signups
    \/ a.points = b.points /\ a.verified = b.verified /\ a.signups = b.signups
       /\ a.id < b.id

\* The groups in ORDER BY order.
RECURSIVE Sorted(_)
Sorted(groups) ==
    IF groups = {} THEN <<>>
    ELSE LET first == CHOOSE g \in groups :
                         \A o \in groups \ {g} : OrderedBefore(g, o)
         IN  <<first>> \o Sorted(groups \ {first})

\* left(u.email, 3) || '***'
MaskedName(email) == Take(email, 3) \o <<"*", "*", "*">>

\* The SELECT list of one group.
BoardRow(accts, g) ==
    [referral_code |-> accts[g.id].referral_code,
     name |-> MaskedName(accts[g.id].email),
     signups |-> g.signups, verified |-> g.verified, points |-> g.points]

\* A query whose WHERE keeps the accounts without a referral code.
HasCodeOrNot(row) == TRUE

\* WHERE u.referral_code IS NOT NULL
HasCode(row) == row.referral_code # <<>>

\* The query of lines 74-94.
LeaderboardQ(accts, events, start, wS, wV, min, limit) ==
    LET groups == {Stats(accts, events, id, start, wS, wV) :
                      id \in {k \in Ids(accts) : HasCode(accts[k])}}
        having == {g \in groups : g.points >= min}
        rows == Sorted(having)
    IN  [k \in 1..Min2(limit, Len(rows)) |-> BoardRow(accts, rows[k])]

\* The query strings a leaderboard request can carry.
WindowInputs == {Undefined, "week", "month", "all", "year"}
LimitInputs == {NoParam, NotANumber, Num(0), Num(1), Num(2), Num(1000)}
MinInputs == {NoParam, Num(-1), Num(1), Num(3)}
WeightInputs ==
    {[absent |-> TRUE, parts |-> <<>>]}
    \cup [absent : {FALSE},
          parts : {<<Num(0)>>, <<Num(0), Num(0)>>, <<NotANumber, Num(1)>>,
                   <<Num(2), Num(1)>>}]

LeaderboardRequests ==
    [window : WindowInputs, limit : LimitInputs, min : MinInputs, w : WeightInputs]

\* Lines 44-107: parse the query string, run the one query, answer 200.
Leaderboard(s, queries) ==
    /\ req[s].kind = "idle"
    /\ \E q \in queries, before \in 0..Len(ledger) :
         LET windowQ == WindowQ(q.window)
             start == WindowStart(windowQ, before)
             limit == LimitOf(q.limit)
             min == MinOf(q.min)
             wSignup == WeightAt(q.w, 1, 1)
             wVerified == WeightAt(q.w, 2, 2)
         IN  req' = [req EXCEPT ![s] =
                [Idle EXCEPT !.kind = "leaderboard", !.pc = "done", !.status = 200,
                             !.window = windowQ, !.wSignup = wSignup,
                             !.wVerified = wVerified, !.limit = limit, !.min = min,
                             !.start = start,
                             !.data = LeaderboardQ(accounts, ledger, start, wSignup,
                                                   wVerified, min, limit)]]
    /\ UNCHANGED <<env, accounts, ledger, credential>>

(***************************************************************************)
(* POST /api/verify-turnstile                                              *)
(***************************************************************************)
\* What siteverify can answer: success false, success true (with no score or
\* a score of 0.5 or more), success true with a score under 0.5; or the fetch
\* throws.
ProviderAnswers == {"fail", "ok", "low-score", "throws"}

\* json.success is true: the provider has confirmed the token.
ProviderSuccess(answer) == answer \in {"ok", "low-score"}

\* verifyTurnstile(token, {ip, minScore: 0.5}) of _lib/turnstile.ts lines
\* 19-77: its `success`.  With no secret it passes outside production
\* (allowDevBypass); an exception is caught and reported as success false.
VerifyTurnstileOpts(token, answer) ==
    IF token = "" THEN FALSE
    ELSE IF ~env.turnstileSecret THEN ~env.production
    ELSE IF answer = "low-score" THEN FALSE
    ELSE ProviderSuccess(answer)

\* verifyTurnstile(token, ip) of _lib/turnstile.ts lines 79-87: its result;
\* an exception of fetch or res.json() is not caught (the caller sees "throws").
VerifyTurnstileLegacy(token, answer) ==
    IF ~env.turnstileSecret THEN "true"
    ELSE IF token = "" THEN "false"
    ELSE IF answer = "throws" THEN "throws"
    ELSE IF ProviderSuccess(answer) THEN "true" ELSE "false"

\* res.status(success ? 200 : 403).json({success, score})
TurnstileResult(r, success, confirmed) ==
    [r EXCEPT !.pc = "done", !.status = IF success THEN 200 ELSE 403,
              !.human = success, !.confirmed = confirmed]

\* The handler of api/verify-turnstile.ts: the token, the bypass, then the
\* helper that the build exports; the legacy helper is called a second time
\* when its first call throws.
VerifyTurnstileEndpoint(s) ==
    /\ req[s].kind = "idle"
    /\ \E token \in TokenInputs, answer \in ProviderAnswers, answer2 \in ProviderAnswers :
         LET r == [Idle EXCEPT !.kind = "turnstile", !.accounts0 = accounts,
                               !.ledger0 = ledger]
             first == VerifyTurnstileLegacy(token, answer)
             used == IF first = "throws" THEN answer2 ELSE answer
             vr == IF first = "throws" THEN VerifyTurnstileLegacy(token, answer2)
                   ELSE first
         IN  req' = [req EXCEPT ![s] =
                IF token = "" THEN Respond(r, 400, "missing_token")
                ELSE IF ~env.production /\ token = "TEST_BYPASS"
                THEN TurnstileResult(r, TRUE, FALSE)
                ELSE IF env.helper = "opts"
                THEN TurnstileResult(r, VerifyTurnstileOpts(token, answer),
                                     env.turnstileSecret /\ ProviderSuccess(answer))
                ELSE IF vr = "throws" THEN Respond(r, 500, "internal_error")
                ELSE TurnstileResult(r, vr = "true",
                                     env.turnstileSecret /\ ProviderSuccess(used))]
    /\ UNCHANGED <<env, accounts, ledger, credential>>

\* The response has been sent: the slot is free again.
Return(s) ==
    /\ req[s].pc = "done"
    /\ req' = [req EXCEPT ![s] = Idle]
    /\ UNCHANGED <<env, accounts, ledger, credential>>

Step(s, bodies) ==
    \/ SignupBegin(s, bodies)
    \/ SignupTurnstile(s)
    \/ SignupLookup(s)
    \/ SignupUpdate(s)
    \/ SignupSetCode(s)
    \/ SignupInsert(s)
    \/ SignupLog(s)
    \/ VerifyBegin(s)
    \/ VerifyFetch(s)
    \/ VerifyMark(s)
    \/ VerifyRefQ(s)
    \/ VerifyAward(s)
    \/ Return(s)

\* Requests served one after the other.
Next == Step(1, SignupRequests)

Spec == Init /\ [][Next]_vars

\* Two referrers and one referee: a@x and b@x sign up without a code, c@x
\* signs up with no code or with a code of either.
ReferrerCodes ==
    {MakeReferralCode(e, n) : e \in {<<"a", "@", "x">>, <<"b", "@", "x">>},
                              n \in 1..NSuffix}

RefereeRequests ==
    [email : {<<"a", "@", "x">>, <<"b", "@", "x">>}, referral : {<<>>},
     referral_auto : {<<>>}, token : {"cf-token"},
     profile : {RoleOnly}, utm : {NoUtm}]
    \cup
    [email : {<<"c", "@", "x">>}, referral : {<<>>} \cup ReferrerCodes,
     referral_auto : {<<>>}, token : {"cf-token"},
     profile : {RoleOnly}, utm : {NoUtm}]

NextReferee == Step(1, RefereeRequests)

\* One deployment: production, with the Turnstile secret set.
InitReferee ==
    /\ Init
    /\ env = [production |-> TRUE, turnstileSecret |-> TRUE, ddl |-> "schema.ts",
              helper |-> "opts"]

SpecReferee == InitReferee /\ [][NextReferee]_vars

\* The upsert half of the signup handler (lines 108-240), for requests that
\* carry no referral code.
Upsert(s, bodies) ==
    \/ SignupBegin(s, bodies)
    \/ SignupTurnstile(s)
    \/ SignupLookup(s)
    \/ SignupUpdate(s)
    \/ SignupSetCode(s)
    \/ SignupInsert(s)
    \/ Return(s)

\* Signups of one address with every combination of profile fields.
ProfileRequests ==
    [email : {<<"b", "@", "x">>}, referral : {<<>>}, referral_auto : {<<>>},
     token : {"cf-token"},
     profile : [role : {Undefined, "Builder", "Creator"},
                experience : {Undefined, "New", "Advanced"},
                discord : {Undefined, "d#1"},
                github : {Undefined, "gh"},
                country : {Undefined, "US"}],
     utm : {NoUtm}]

NextProfile == Upsert(1, ProfileRequests)

SpecProfile == InitReferee /\ [][NextProfile]_vars

\* Signups of one address with every combination of utm_* fields.
UtmRequests ==
    [email : {<<"b", "@", "x">>}, referral : {<<>>}, referral_auto : {<<>>},
     token : {"cf-token"}, profile : {RoleOnly},
     utm : [source : {Undefined, "google", "news"},
            medium : {Undefined, "cpc", "email"},
            campaign : {Undefined, "launch"},
            content : {Undefined, "banner"},
            term : {Undefined, "devnet"}]]

NextUtm == Upsert(1, UtmRequests)

SpecUtm == InitReferee /\ [][NextUtm]_vars

\* Two addresses with the same local part, so that makeReferralCode can mint
\* the same code for both; no referral code.
MintRequests ==
    [email : {<<"a", "@", "x">>, <<"a", "@", "y">>}, referral : {<<>>},
     referral_auto : {<<>>}, token : {"cf-token"},
     profile : {RoleOnly}, utm : {NoUtm}]

\* A production deployment on either store; the store is empty or holds a
\* row for a@y written before referral codes were generated.
InitMint ==
    /\ env \in [production : {TRUE}, turnstileSecret : {TRUE}, ddl : Ddls,
                helper : {"opts"}]
    /\ \/ accounts = <<>> /\ credential = <<>>
       \/ /\ accounts = <<AccountRow(<<"a", "@", "y">>, <<>>, RoleOnly, EmptyUtm)>>
          /\ credential = <<"none">>
    /\ ledger = <<>>
    /\ req = [s \in Slots |-> Idle]

NextMint == Upsert(1, MintRequests)

SpecMint == InitMint /\ [][NextMint]_vars

\* One address in two letter cases and a second address with the same local
\* part, no referral code.
RaceRequests ==
    [email : {<<"a", "@", "x">>, <<"A", "@", "x">>, <<"a", "@", "y">>},
     referral : {<<>>}, referral_auto : {<<>>}, token : {"cf-token"},
     profile : {RoleOnly}, utm : {NoUtm}]

\* Two invocations of the signup handler in flight at once: their statements
\* interleave in any order.
NextRace == \E s \in Slots : Upsert(s, RaceRequests)

SpecRace == InitMint /\ [][NextRace]_vars

\* Signups of a@x and b@x, with no code or with a code of a@x.
FaultRequests ==
    [email : {<<"a", "@", "x">>, <<"b", "@", "x">>},
     referral : {<<>>, MakeReferralCode(<<"a", "@", "x">>, 1)},
     referral_auto : {<<>>}, token : {"cf-token"},
     profile : {RoleOnly}, utm : {NoUtm}]

\* Requests served one after the other by a store whose statements can fail.
NextFaults ==
    \/ Step(1, FaultRequests)
    \/ SignupLogFails(1)
    \/ VerifyAwardFails(1)

SpecFaults == InitReferee /\ [][NextFaults]_vars

\* The attribution half of the handlers: signups of existing accounts
\* (lines 108-193 and 242-269 of waitlist.ts) and VerifyEmail.
Attribute(s, bodies) ==
    \/ SignupBegin(s, bodies)
    \/ SignupTurnstile(s)
    \/ SignupLookup(s)
    \/ SignupUpdate(s)
    \/ SignupLog(s)
    \/ VerifyBegin(s)
    \/ VerifyFetch(s)
    \/ VerifyMark(s)
    \/ VerifyRefQ(s)
    \/ VerifyAward(s)
    \/ Return(s)

\* b@x signs up with the code of a@x, any number of times.
LedgerRequests ==
    [email : {<<"b", "@", "x">>},
     referral : {MakeReferralCode(<<"a", "@", "x">>, 1)},
     referral_auto : {<<>>}, token : {"cf-token"},
     profile : {RoleOnly}, utm : {NoUtm}]

\* A production deployment on either store, after a@x and b@x have signed up
\* without a referral code.
InitLedger ==
    /\ env \in [production : {TRUE}, turnstileSecret : {TRUE}, ddl : Ddls,
                helper : {"opts"}]
    /\ accounts = <<AccountRow(<<"a", "@", "x">>,
                               MakeReferralCode(<<"a", "@", "x">>, 1), RoleOnly, EmptyUtm),
                    AccountRow(<<"b", "@", "x">>,
                               MakeReferralCode(<<"b", "@", "x">>, 1), RoleOnly, EmptyUtm)>>
    /\ credential = <<"fresh", "fresh">>
    /\ ledger = <<>>
    /\ req = [s \in Slots |-> Idle]

\* Two invocations in flight at once, e.g. a client retrying a request that
\* timed out while the first is still running.
NextLedger == \E s \in Slots : Attribute(s, LedgerRequests)

SpecLedger == InitLedger /\ [][NextLedger]_vars

\* Four accounts in the order they signed up; the third has a referral code
\* or is a row written before codes were generated.
BoardAccounts(code3) ==
    <<AccountRow(<<"a", "@", "x">>, <<"A", "1">>, RoleOnly, EmptyUtm),
      AccountRow(<<"b", "@", "x">>, <<"B", "1">>, RoleOnly, EmptyUtm),
      AccountRow(<<"c", "@", "x">>, code3, RoleOnly, EmptyUtm),
      AccountRow(<<"a", "b", "c", "a", "@", "y">>, <<"A", "B", "C", "A", "2">>,
                 RoleOnly, EmptyUtm)>>

\* Events the four accounts can have written, in the order of their writing.
BoardEvents ==
    <<EventRow(1, 2, "SIGNUP"), EventRow(2, 1, "SIGNUP"), EventRow(1, 3, "SIGNUP"),
      EventRow(1, 2, "VERIFIED"), EventRow(1, 4, "SIGNUP"), EventRow(2, 1, "VERIFIED"),
      EventRow(4, 3, "SIGNUP"), EventRow(4, 3, "VERIFIED")>>

\* The rows of seq whose position, from k on, is in I.
RECURSIVE Pick(_, _, _)
Pick(seq, I, k) ==
    IF k > Len(seq) THEN <<>>
    ELSE (IF k \in I THEN <<seq[k]>> ELSE <<>>) \o Pick(seq, I, k + 1)

\* A ledger the handlers can have written: every VERIFIED row credits the
\* referrer of the latest SIGNUP row its referee had at the time.
Written(events) ==
    \A k \in 1..Len(events) :
        events[k].kind = "VERIFIED" =>
           RefQ(SubSeq(events, 1, k - 1), events[k].referee_id) = events[k].referrer_id

\* The store after the signups and verifications that wrote `events`.
InitBoard ==
    /\ env = [production |-> TRUE, turnstileSecret |-> TRUE, ddl |-> "schema.ts",
              helper |-> "opts"]
    /\ \E code3 \in {<<>>, <<"C", "1">>}, I \in SUBSET (1..Len(BoardEvents)) :
          /\ Cardinality(I) <= MaxLedger
          /\ ledger = Pick(BoardEvents, I, 1)
          /\ Written(ledger)
          /\ accounts = [k \in 1..4 |->
                [BoardAccounts(code3)[k] EXCEPT !.email_verified =
                    \E j \in 1..Len(ledger) :
                        ledger[j].kind = "VERIFIED" /\ ledger[j].referee_id = k]]
          /\ credential = [k \in 1..4 |->
                IF accounts[k].email_verified THEN "used" ELSE "fresh"]
    /\ req = [s \in Slots |-> Idle]

NextBoard == Leaderboard(1, LeaderboardRequests) \/ Return(1)

SpecBoard == InitBoard /\ [][NextBoard]_vars

\* Requests served one after the other while the provider may stop answering.
NextLive ==
    \/ Step(1, FaultRequests)
    \/ SignupTurnstileHangs(1)

\* The runtime resumes a handler as soon as the promise it awaits settles:
\* every step that can be taken is taken.
SpecLive == InitReferee /\ [][NextLive]_vars /\ WF_vars(NextLive)

\* A body with one optional profile field.
RoleAndExperience == [RoleOnly EXCEPT !.experience = "Advanced"]

\* Signups of a@x and b@x with no code or a code of either, with and without
\* an optional profile field.
CallRequests ==
    [email : {<<"a", "@", "x">>, <<"b", "@", "x">>},
     referral : {<<>>} \cup ReferrerCodes, referral_auto : {<<>>},
     token : {"cf-token"}, profile : {RoleOnly, RoleAndExperience}, utm : {NoUtm}]

\* Leaderboard queries with the default limit, minimum and weights.
BoardQueries ==
    [window : {Undefined, "all"}, limit : {NoParam}, min : {NoParam},
     w : {[absent |-> TRUE, parts |-> <<>>]}]

\* Signup, VerifyEmail and Leaderboard calls served one after the other.
NextCalls ==
    \/ Step(1, CallRequests)
    \/ Leaderboard(1, BoardQueries)

SpecCalls == InitReferee /\ [][NextCalls]_vars

\* b@x signs up with no code or with the code of a@x.
LegacyRequests ==
    [email : {<<"b", "@", "x">>},
     referral : {<<>>, MakeReferralCode(<<"a", "@", "x">>, 1)},
     referral_auto : {<<>>}, token : {"cf-token"},
     profile : {RoleOnly}, utm : {NoUtm}]

\* A production deployment whose store holds a@x with a referral code and
\* b@x, a row written before referral codes were generated.
InitLegacy ==
    /\ env = [production |-> TRUE, turnstileSecret |-> TRUE, ddl |-> "schema.ts",
              helper |-> "opts"]
    /\ accounts = <<AccountRow(<<"a", "@", "x">>,
                               MakeReferralCode(<<"a", "@", "x">>, 1), RoleOnly, EmptyUtm),
                    AccountRow(<<"b", "@", "x">>, <<>>, RoleOnly, EmptyUtm)>>
    /\ credential = <<"fresh", "none">>
    /\ ledger = <<>>
    /\ req = [s \in Slots |-> Idle]

\* Two signups of the existing account in flight at once (lines 108-213 and
\* 242-269).
NextLegacy ==
    \E s \in Slots :
        \/ SignupBegin(s, LegacyRequests)
        \/ SignupTurnstile(s)
        \/ SignupLookup(s)
        \/ SignupUpdate(s)
        \/ SignupSetCode(s)
        \/ SignupLog(s)
        \/ Return(s)

SpecLegacy == InitLegacy /\ [][NextLegacy]_vars

\* Signups of one address with every token.
HumanRequests ==
    [email : {<<"a", "@", "x">>}, referral : {<<>>}, referral_auto : {<<>>},
     token : TokenInputs, profile : {RoleOnly}, utm : {NoUtm}]

\* Every deployment: production or not, with or without the secret, with
\* either helper in the build; the store is empty.
InitHuman ==
    /\ env \in [production : BOOLEAN, turnstileSecret : BOOLEAN, ddl : {"schema.ts"},
                helper : Helpers]
    /\ accounts = <<>> /\ credential = <<>>
    /\ ledger = <<>>
    /\ req = [s \in Slots |-> Idle]

\* The two human checks: the signup handler and the verify-turnstile endpoint.
NextHuman ==
    \/ SignupBegin(1, HumanRequests)
    \/ SignupTurnstile(1)
    \/ SignupLookup(1)
    \/ SignupUpdate(1)
    \/ SignupInsert(1)
    \/ VerifyTurnstileEndpoint(1)
    \/ Return(1)

SpecHuman == InitHuman /\ [][NextHuman]_vars

(***************************************************************************)
(* Properties.  A request record keeps the tables as they were when the    *)
(* request began (accounts0, ledger0), so a property of one call compares  *)
(* them with the tables when it ends.                                      *)
(***************************************************************************)
Count(events, row) == Cardinality({k \in 1..Len(events) : events[k] = row})

Holders(accts, code) ==
    {k \in Ids(accts) : code # <<>> /\ accts[k].referral_code = code}

SignupDone(s) == req[s].kind = "signup" /\ req[s].pc = "done"

VerifyDone(s) ==
    req[s].kind = "verify" /\ req[s].pc = "done" /\ req[s].status \in {200, 302}

\* The events with referee `id` and kind SIGNUP.
SignupsOf(events, id) ==
    {k \in 1..Len(events) : events[k].referee_id = id /\ events[k].kind = "SIGNUP"}

\* The request repeats a signup that was already credited: when it began, the
\* ledger held SIGNUP(R, F) for the holder R of its code and the account F of
\* its email.
IsRetry(s) ==
    \E R \in Ids(req[s].accounts0), F \in Ids(req[s].accounts0) :
        /\ R # F
        /\ req[s].refCodeIn # <<>>
        /\ req[s].accounts0[R].referral_code = req[s].refCodeIn
        /\ Lower(req[s].accounts0[F].email) = req[s].email
        /\ Count(req[s].ledger0, EventRow(R, F, "SIGNUP")) = 1

LatestReferrer(events, id) ==
    IF SignupsOf(events, id) = {} THEN 0
    ELSE LET last == CHOOSE k \in SignupsOf(events, id) :
                        \A o \in SignupsOf(events, id) : o <= k
         IN  events[last].referrer_id

C3_AwardedOnlyOnNewRow ==
    \A s \in Slots :
        VerifyDone(s) /\ req[s].wantsJson /\ req[s].awarded =>
           Len(ledger) = Len(req[s].ledger0) + 1

\* C4: VerifyEmail(F) with no SIGNUP event whose referee is F answers
\* awarded = false and writes no ledger row.
C4_NoSignupNoAward ==
    \A s \in Slots :
        req[s].kind = "verify" /\ req[s].id # 0
        /\ SignupsOf(req[s].ledger0, req[s].id) = {} =>
           /\ ledger = req[s].ledger0
           /\ req[s].pc = "done" => req[s].awarded = FALSE

\* VerifyEmail(F) has answered in JSON for an F nobody referred, while the
\* ledger holds events of other accounts.
C4_Witness ==
    \E s \in Slots :
        /\ VerifyDone(s) /\ req[s].wantsJson
        /\ SignupsOf(req[s].ledger0, req[s].id) = {}
        /\ req[s].ledger0 # <<>>

\* C5: no event has referrer = referee, and a signup that carries the code of
\* its own account, new or existing, appends no event.
C5_NoSelfReferral ==
    /\ \A k \in 1..Len(ledger) : ledger[k].referrer_id # ledger[k].referee_id
    /\ \A s \in Slots :
          SignupDone(s) /\ req[s].status = 200
          /\ accounts[req[s].id].referral_code = req[s].refCodeIn =>
             ledger = req[s].ledger0

\* A new account was created by a signup that carried the code it was given.
C5_Witness ==
    \E s \in Slots :
        /\ SignupDone(s) /\ req[s].status = 200
        /\ req[s].id > Len(req[s].accounts0)
        /\ accounts[req[s].id].referral_code = req[s].refCodeIn

\* C6: a signup that passed the human check and carries a referral code no
\* account holds answers 200 with the account's code and appends no event;
\* the only other outcome is the failure of the account insert itself.
C6_UnknownCodeIgnored ==
    \A s \in Slots :
        SignupDone(s) /\ req[s].human /\ req[s].refCodeIn # <<>>
        /\ Holders(accounts, req[s].refCodeIn) = {} =>
           /\ ledger = req[s].ledger0
           /\ \/ /\ req[s].status = 200
                 /\ req[s].id \in Ids(accounts)
                 /\ Lower(accounts[req[s].id].email) = req[s].email
                 /\ accounts[req[s].id].referral_code = req[s].code
              \/ /\ req[s].status = 500
                 /\ req[s].code = <<>>
                 /\ accounts = req[s].accounts0

\* A new account was created by a signup whose code no account holds.
C6_Witness ==
    \E s \in Slots :
        /\ SignupDone(s) /\ req[s].status = 200
        /\ req[s].refCodeIn # <<>>
        /\ Holders(accounts, req[s].refCodeIn) = {}
        /\ req[s].id > Len(req[s].accounts0)

\* C7: the store holds at most one account per lowercased email, a signup
\* inserts only when no account has its email in any letter case, and an
\* accepted signup answers with the account of its lowercased email.
C7_OneAccountPerEmail ==
    /\ \A j \in Ids(accounts), k \in Ids(accounts) :
          j # k => Lower(accounts[j].email) # Lower(accounts[k].email)
    /\ \A s \in Slots :
          req[s].kind = "signup" /\ req[s].pc = "insert" =>
             \A k \in Ids(accounts) :
                Lower(accounts[k].email) # Lower(req[s].data_email)
    /\ \A s \in Slots :
          SignupDone(s) /\ req[s].status = 200 =>
             /\ req[s].id \in Ids(accounts)
             /\ Lower(accounts[req[s].id].email) = Lower(req[s].data_email)

\* A signup spelled in another letter case resolved to the existing account.
C7_Witness ==
    \E s \in Slots :
        /\ SignupDone(s) /\ req[s].status = 200
        /\ req[s].id \in Ids(req[s].accounts0)
        /\ req[s].data_email # accounts[req[s].id].email

C9_NoMutationWithoutHumanCheck ==
    \A s \in Slots :
        req[s].kind = "signup" =>
           /\ ~req[s].human =>
                 /\ req[s].pc \in {"turnstile", "done"}
                 /\ accounts = req[s].accounts0
                 /\ ledger = req[s].ledger0
           /\ req[s].pc = "done" /\ req[s].status \in {400, 401} =>
                 /\ ~req[s].human
                 /\ accounts = req[s].accounts0
                 /\ ledger = req[s].ledger0

\* A signup was refused by the human check while accounts exist.
C9_Witness ==
    \E s \in Slots :
        /\ SignupDone(s) /\ req[s].status = 401
        /\ accounts # <<>>

\* C10: once a VerifyEmail has accepted a credential, the same credential
\* presented again is rejected as invalid and reaches no store statement.
C10_CredentialSingleUse ==
    \A s \in Slots :
        req[s].kind = "verify" /\ req[s].cred0 = "used" =>
           req[s].pc = "done" /\ req[s].status = 401

\* The signup in slot s has answered 200 for an account that existed when it
\* began.
UpdatedExisting(s) ==
    SignupDone(s) /\ req[s].status = 200 /\ req[s].id \in Ids(req[s].accounts0)

\* C11: a signup on an existing account replaces each profile field by the
\* value the request supplies and leaves the stored value of a field the
\* request does not carry.
C11_AbsentFieldKept ==
    \A s \in Slots :
        UpdatedExisting(s) =>
           /\ accounts[req[s].id].role = req[s].profile.role
           /\ \A f \in ProfileFields :
                 accounts[req[s].id][f] =
                    IF req[s].profile[f] = Undefined
                    THEN req[s].accounts0[req[s].id][f]
                    ELSE req[s].profile[f]

\* C12: a signup on an existing account merges the utm keys: a key the
\* request does not supply keeps its old value, a key it supplies takes the
\* new value, and no key ends up null or removed.
C12_UtmMerged ==
    \A s \in Slots :
        UpdatedExisting(s) =>
           \A k \in UtmKeys :
              LET old == req[s].accounts0[req[s].id].utm[k]
                  new == req[s].utm[k]
                  now == accounts[req[s].id].utm[k]
              IN  /\ now # SqlNull
                  /\ old # Missing => now # Missing
                  /\ new = Undefined => now = old
                  /\ new # Undefined => now = new

\* A signup on an account with two keys set kept one the request did not
\* carry and overwrote the other with a different value.
C12_Witness ==
    \E s \in Slots :
        /\ UpdatedExisting(s)
        /\ \E k \in UtmKeys :
              /\ req[s].accounts0[req[s].id].utm[k] # Missing
              /\ req[s].utm[k] = Undefined
              /\ accounts[req[s].id].utm[k] = req[s].accounts0[req[s].id].utm[k]
        /\ \E k \in UtmKeys :
              /\ req[s].accounts0[req[s].id].utm[k] # Missing
              /\ req[s].utm[k] \notin {Undefined, req[s].accounts0[req[s].id].utm[k]}
              /\ accounts[req[s].id].utm[k] = req[s].utm[k]

\* The signup in slot s has failed on the INSERT path: no account had its
\* email when it looked, and it answered 500.
InsertFailed(s) ==
    /\ SignupDone(s) /\ req[s].status = 500
    /\ req[s].human /\ req[s].id = 0

\* C13: on a new-account signup a collision of the referral code is retried
\* with a fresh candidate: the signup fails only when its third attempt has
\* collided too, and a failed signup creates no account.
C13_CollisionRetried ==
    \A s \in Slots :
        InsertFailed(s) =>
           /\ req[s].i = 2
           /\ accounts = req[s].accounts0

\* The rows of the normalized email `email`.
RowsOf(accts, email) == {k \in Ids(accts) : Lower(accts[k].email) = email}

\* C14: under any interleaving of concurrent signups, on the insert path and
\* on the mint-on-update path, no two accounts hold the same non-null
\* referral code.
C14_CodesUnique ==
    \A j \in Ids(accounts), k \in Ids(accounts) :
        j # k /\ accounts[j].referral_code # <<>> =>
           accounts[j].referral_code # accounts[k].referral_code

\* Two signups were in flight at once, one inserting a new account and one
\* minting a code for an account without one; the insert got the code and
\* the store rejected the same code for the other account.
C14_Witness ==
    \E s \in Slots, t \in Slots :
        /\ SignupDone(s) /\ req[s].status = 200
        /\ req[s].id > Len(req[t].accounts0)
        /\ SignupDone(t) /\ req[t].status = 500
        /\ req[t].id \in Ids(req[t].accounts0)
        /\ accounts[req[t].id].referral_code = <<>>
        /\ accounts[req[s].id].referral_code \in
              {MakeReferralCode(req[t].email, n) : n \in 1..NSuffix}

\* C16: concurrent signups for one email, in any letter case, on an account
\* that does not exist yet leave one row for the normalized email, whatever
\* the interleaving of their lookups and inserts.
C16_OneRowPerEmailUnderRace ==
    /\ \A s \in Slots :
          req[s].kind = "signup" =>
             Cardinality(RowsOf(accounts, NormalizeEmail(req[s].data_email))) <= 1
    /\ \A s \in Slots :
          SignupDone(s) /\ req[s].status = 200 =>
             RowsOf(accounts, req[s].email) = {req[s].id}

\* Two signups of one address in two letter cases both found no account; one
\* inserted the row and the other was refused by the store.
C16_Witness ==
    \E s \in Slots, t \in Slots :
        /\ SignupDone(s) /\ req[s].status = 200
        /\ SignupDone(t) /\ req[t].status = 500 /\ req[t].id = 0
        /\ req[s].data_email # req[t].data_email
        /\ req[s].email = req[t].email
        /\ RowsOf(req[s].accounts0, req[s].email) = {}
        /\ RowsOf(req[t].accounts0, req[t].email) = {}
        /\ Cardinality(RowsOf(accounts, req[s].email)) = 1

\* C15: Signup and VerifyEmail are atomic: when a request fails, none of the
\* mutations of its earlier statements is visible.
C15_FailedRequestLeavesNoTrace ==
    \A s \in Slots :
        req[s].pc = "done" /\ req[s].status = 500 =>
           /\ accounts = req[s].accounts0
           /\ ledger = req[s].ledger0

\* C17: concurrent SIGNUP or VERIFIED inserts for one (referrer, referee,
\* kind) triple all complete as successes and leave one row for it: the
\* triple is unique in the ledger in every reachable state.
C17_TripleUniqueUnderRace ==
    /\ \A j \in 1..Len(ledger), k \in 1..Len(ledger) :
          j # k => ledger[j] # ledger[k]
    /\ \A s \in Slots :
          /\ SignupDone(s) /\ req[s].human => req[s].status = 200
          /\ req[s].kind = "verify" /\ req[s].pc = "done" /\ req[s].id # 0 =>
                req[s].status \in {200, 302}

\* The leaderboard request in slot s has answered.
BoardDone(s) == req[s].kind = "leaderboard" /\ req[s].pc = "done"

\* The events of kind `kind` that credit account id and were written at or
\* after the window start of the request in slot s.
InWindow(s, id, kind) ==
    {k \in 1..Len(ledger) :
        /\ k > req[s].start
        /\ ledger[k].referrer_id = id
        /\ ledger[k].kind = kind}

\* signups x signupWeight + verified x verifiedWeight for account id.
PointsOf(s, id) ==
    Cardinality(InWindow(s, id, "SIGNUP")) * req[s].wSignup
    + Cardinality(InWindow(s, id, "VERIFIED")) * req[s].wVerified

\* The accounts the leaderboard of slot s has to list.
Listed(s) ==
    {id \in Ids(accounts) :
        accounts[id].referral_code # <<>> /\ PointsOf(s, id) >= req[s].min}

\* The account a leaderboard row is about.
AccountOf(row) == CHOOSE id \in Ids(accounts) : accounts[id].referral_code = row.referral_code

\* C18: the leaderboard has a row exactly for each account with a referral
\* code whose points reach the minimum, up to the limit; signups and verified
\* count the account's SIGNUP and VERIFIED events as referrer in the window,
\* and points = signups x signupWeight + verified x verifiedWeight.
C18_BoardRows ==
    \A s \in Slots :
        BoardDone(s) =>
           /\ Len(req[s].data) = Min2(req[s].limit, Cardinality(Listed(s)))
           /\ \A j \in 1..Len(req[s].data), k \in 1..Len(req[s].data) :
                 j # k => req[s].data[j].referral_code # req[s].data[k].referral_code
           /\ \A k \in 1..Len(req[s].data) :
                 LET row == req[s].data[k]
                 IN  /\ row.referral_code # <<>>
                     /\ AccountOf(row) \in Listed(s)
                     /\ row.signups = Cardinality(InWindow(s, AccountOf(row), "SIGNUP"))
                     /\ row.verified = Cardinality(InWindow(s, AccountOf(row), "VERIFIED"))
                     /\ row.points = row.signups * req[s].wSignup
                                     + row.verified * req[s].wVerified

\* At weights 1 and 2 an account with 3 SIGNUP and 1 VERIFIED events scores
\* 5, while an account without a referral code is left out.
C18_Witness ==
    \E s \in Slots :
        /\ BoardDone(s) /\ req[s].wSignup = 1 /\ req[s].wVerified = 2
        /\ \E k \in 1..Len(req[s].data) :
              /\ req[s].data[k].signups = 3
              /\ req[s].data[k].verified = 1
              /\ req[s].data[k].points = 5
        /\ \E id \in Ids(accounts) : accounts[id].referral_code = <<>>

\* Row a ranks before row b: points descending, then verified descending,
\* then signups descending, then account creation ascending.
RanksBefore(a, ida, b, idb) ==
    \/ a.points > b.points
    \/ /\ a.points = b.points
       /\ \/ a.verified > b.verified
          \/ /\ a.verified = b.verified
             /\ \/ a.signups > b.signups
                \/ a.signups = b.signups /\ ida < idb

\* C19: the rows are in that order, and they are the first `limit` rows of
\* it: every listed account that has no row ranks after every row.
C19_BoardOrder ==
    \A s \in Slots :
        BoardDone(s) =>
           /\ \A j \in 1..Len(req[s].data), k \in 1..Len(req[s].data) :
                 j < k => RanksBefore(req[s].data[j], AccountOf(req[s].data[j]),
                                      req[s].data[k], AccountOf(req[s].data[k]))
           /\ \A id \in Listed(s) :
                 (\A k \in 1..Len(req[s].data) : AccountOf(req[s].data[k]) # id) =>
                    \A k \in 1..Len(req[s].data) :
                       RanksBefore(req[s].data[k], AccountOf(req[s].data[k]),
                                   [points |-> PointsOf(s, id),
                                    verified |-> Cardinality(InWindow(s, id, "VERIFIED")),
                                    signups |-> Cardinality(InWindow(s, id, "SIGNUP"))],
                                   id)

\* Two rows tie on points and the account created later comes first because
\* it has more verified events; the limit has cut a listed account off.
C19_Witness ==
    \E s \in Slots :
        /\ BoardDone(s)
        /\ Len(req[s].data) < Cardinality(Listed(s))
        /\ \E k \in 1..(Len(req[s].data) - 1) :
              /\ req[s].data[k].points = req[s].data[k + 1].points
              /\ req[s].data[k].verified > req[s].data[k + 1].verified
              /\ AccountOf(req[s].data[k]) > AccountOf(req[s].data[k + 1])

\* C20: the name of every row is the first 3 characters of the local part of
\* the account's email followed by ***, and is never the email itself
\* followed by ***.
C20_NameIsMaskedLocalPart ==
    \A s \in Slots :
        BoardDone(s) =>
           \A k \in 1..Len(req[s].data) :
              LET email == accounts[AccountOf(req[s].data[k])].email
              IN  req[s].data[k].name = Take(LocalPart(email), 3) \o <<"*", "*", "*">>

\* C21: in production no human check, of a signup or of the verify-turnstile
\* endpoint, reports success unless the provider confirmed the token; the
\* bypass token is honoured outside production only.
C21_NoSuccessUnconfirmedInProduction ==
    \A s \in Slots :
        /\ env.production /\ req[s].kind = "signup" /\ req[s].pc = "lookup" =>
              req[s].human /\ req[s].confirmed
        /\ env.production /\ req[s].kind = "turnstile" /\ req[s].status = 200 =>
              req[s].human /\ req[s].confirmed

\* C22: every signup request eventually returns a response, even when the
\* human-check provider never answers.
C22_SignupEventuallyResponds ==
    (req[1].kind = "signup") ~> (req[1].pc = "done")

\* C23: the ledger is append-only and no account is deleted: every step of a
\* Signup, VerifyEmail or Leaderboard call leaves every ledger row in its
\* place with the same referrer, referee and kind, and every account row in
\* the table with the same email.
C23_AppendOnly ==
    [][/\ Len(ledger') >= Len(ledger)
       /\ SubSeq(ledger', 1, Len(ledger)) = ledger
       /\ Len(accounts') >= Len(accounts)
       /\ \A k \in Ids(accounts) : accounts'[k].email = accounts[k].email]_vars

\* A VerifyEmail has appended a VERIFIED row behind the rows the ledger held
\* when it began, and a leaderboard has been served from that ledger.
C23_Witness ==
    /\ Len(ledger) >= 3
    /\ \E k \in 2..Len(ledger) : ledger[k].kind = "VERIFIED"
    /\ req[1].kind = "leaderboard" /\ req[1].pc = "done"
    /\ Len(accounts) = 2

\* C24: every VERIFIED(R, F) row of the ledger has a SIGNUP(R, F) row before it.
C24_VerifiedAfterSignup ==
    \A k \in 1..Len(ledger) :
        ledger[k].kind = "VERIFIED" =>
           \E j \in 1..(k - 1) :
              ledger[j] = EventRow(ledger[k].referrer_id, ledger[k].referee_id, "SIGNUP")

\* The ledger holds a VERIFIED row whose referee has SIGNUP rows of two
\* referrers before it.
C24_Witness ==
    \E k \in 1..Len(ledger) :
        /\ ledger[k].kind = "VERIFIED"
        /\ Cardinality({ledger[j].referrer_id : j \in
                 {i \in 1..(k - 1) : /\ ledger[i].kind = "SIGNUP"
                                     /\ ledger[i].referee_id = ledger[k].referee_id}}) = 2

\* The referrers that hold a VERIFIED row with referee id.
VerifiedReferrers(events, id) ==
    {events[k].referrer_id : k \in
        {i \in 1..Len(events) : events[i].kind = "VERIFIED" /\ events[i].referee_id = id}}

\* VerifyEmail(F) has answered after F signed up with the code of R1 and then
\* with the code of R2, with no VERIFIED row for F on record: the referrers
\* R1 and R2 of the request in slot s, or <<0, 0>>.
TwoSignups(s) ==
    LET su == SignupsOf(req[s].ledger0, req[s].id)
    IN  IF /\ VerifyDone(s)
           /\ Cardinality(su) = 2
           /\ VerifiedReferrers(req[s].ledger0, req[s].id) = {}
        THEN <<req[s].ledger0[CHOOSE k \in su : \A o \in su : k <= o].referrer_id,
               req[s].ledger0[CHOOSE k \in su : \A o \in su : o <= k].referrer_id>>
        ELSE <<0, 0>>

\* C25: when F signed up with R1's code and later with R2's code,
\* VerifyEmail(F) appends VERIFIED(R2, F) and no VERIFIED(R1, F).
C25_LatestReferrerCredited ==
    \A s \in Slots :
        TwoSignups(s) # <<0, 0>> =>
           /\ ledger = Append(req[s].ledger0,
                              EventRow(TwoSignups(s)[2], req[s].id, "VERIFIED"))
           /\ VerifiedReferrers(ledger, req[s].id) = {TwoSignups(s)[2]}
           /\ TwoSignups(s)[1] # TwoSignups(s)[2]

\* VerifyEmail(F) has answered awarded = true after the two signups.
C25_Witness ==
    \E s \in Slots :
        /\ TwoSignups(s) # <<0, 0>>
        /\ req[s].wantsJson /\ req[s].awarded
        /\ Count(ledger, EventRow(TwoSignups(s)[1], req[s].id, "VERIFIED")) = 0

\* The VerifyEmail in slot s has answered for an account whose flag was
\* already true when it began.
ReVerified(s) ==
    /\ VerifyDone(s)
    /\ req[s].accounts0[req[s].id].email_verified

\* C26: VerifyEmail on an account whose flag is already true keeps the flag
\* and runs the award logic again: when a SIGNUP(R, F) is the latest for F
\* and no VERIFIED(R, F) exists, the call appends VERIFIED(R, F).
C26_AwardRerunsWhenVerified ==
    \A s \in Slots :
        ReVerified(s) =>
           /\ accounts[req[s].id].email_verified
           /\ LET R == LatestReferrer(req[s].ledger0, req[s].id)
              IN  R # 0 /\ Count(req[s].ledger0, EventRow(R, req[s].id, "VERIFIED")) = 0 =>
                     /\ ledger = Append(req[s].ledger0, EventRow(R, req[s].id, "VERIFIED"))
                     /\ req[s].awarded

\* F verified with no signup on record, then signed up with R's code, and a
\* second VerifyEmail(F) has appended VERIFIED(R, F).
C26_Witness ==
    \E s \in Slots :
        /\ ReVerified(s)
        /\ Len(ledger) = Len(req[s].ledger0) + 1
        /\ ledger[Len(ledger)] =
              EventRow(LatestReferrer(req[s].ledger0, req[s].id), req[s].id, "VERIFIED")

\* C27: the email-verified flag is monotone: no step of a Signup or a
\* VerifyEmail sets a flag that is true back to false.
C27_VerifiedFlagMonotone ==
    [][\A k \in Ids(accounts) :
          accounts[k].email_verified =>
             k \in Ids(accounts') /\ accounts'[k].email_verified]_vars

\* A re-signup has rewritten a profile field of an account whose flag is
\* true, and the flag is still true.
C27_Witness ==
    \E s \in Slots :
        /\ UpdatedExisting(s)
        /\ req[s].accounts0[req[s].id].email_verified
        /\ req[s].accounts0[req[s].id].experience # accounts[req[s].id].experience
        /\ accounts[req[s].id].email_verified

\* C28: for every referee F at most one referrer holds a VERIFIED event with
\* referee F.
C28_OneVerifiedReferrerPerReferee ==
    \A F \in Ids(accounts) : Cardinality(VerifiedReferrers(ledger, F)) <= 1

\* C29: the referral code a successful signup returns is the code stored on
\* its account when the response is produced.
C29_ReturnedCodeIsStored ==
    [][\A s \in Slots :
          (/\ req[s].pc # "done"
           /\ req'[s].kind = "signup" /\ req'[s].pc = "done" /\ req'[s].status = 200)
          => req'[s].code = accounts'[req'[s].id].referral_code]_vars

\* The signup in slot s was refused by the store on its insert although no
\* account had its email when it began, and the store now holds one row, of
\* that email: the other signup of the race has inserted it.
LostInsertRace(s) ==
    /\ SignupDone(s) /\ req[s].human /\ req[s].id = 0
    /\ req[s].accounts0 = <<>>
    /\ Len(accounts) = 1 /\ RowsOf(accounts, req[s].email) = {1}

\* C30: of two signups that race for one new email, the one whose insert the
\* email uniqueness constraint rejects still answers 200 with the referral
\* code of the account, not an internal error.
C30_LoserOfInsertRaceSucceeds ==
    \A s \in Slots :
        LostInsertRace(s) =>
           /\ req[s].status = 200
           /\ req[s].code = accounts[1].referral_code

====
